---------------------------- MODULE Spec2Model ----------------------------
(***************************************************************************)
(* Mini Gold Spinner (src/mini_gold_spinner_reps.py): the payout pipeline, *)
(* the process-wide reactive cells, the session start-up with its ledger   *)
(* refresh, the wheel spin and the save button.                            *)
(*                                                                         *)
(* Numbers.  The program computes in IEEE-754 doubles.  Every real value   *)
(* of the payout pipeline is a rational with a small fixed denominator,    *)
(* so it is carried here as an exact fraction:                             *)
(*   base   in 1/29 gp          (BaseDen)                                  *)
(*   mult   in hundredths       (WHEEL_MULTS)                              *)
(*   flair  in percent                                                     *)
(*   raw    in 1/290000 gp      (RawDen), with the sign of the double's    *)
(*          deviation from the exact product where the exact product is a  *)
(*          half-integer (FloatBelow / FloatAbove): only there can the     *)
(*          deviation change what round() returns.                         *)
(*   ledger cells and their total in half gp (CellDen).                    *)
(***************************************************************************)
EXTENDS Integers, Sequences, FiniteSets, TLC

VARIABLES
    env,              \* what the process found at import: library, credentials, sheet id
    selected_index,   \* reactive.Value(None): None or an index into WHEEL_MULTS
    last_angle,       \* reactive.Value(0.0), degrees
    spin_token,       \* reactive.Value(False)
    gs_status_msg,    \* reactive.Value("Not connected")
    agg_gold,         \* reactive.Value(0)
    agg_jobs,         \* reactive.Value(0)
    tier_idx,         \* reactive.Value(0)
    opened,           \* sessions 1..opened have run server()
    input_spin,       \* per session: has input.spin fired (the SPIN! button)
    input_save,       \* input.save: clicks of the save button, over all sessions
    payout_call,      \* the last compute_payout call still on display: inputs read, tuple returned
    stats_call,       \* the last fetch_stats call: what col_values did, tuple returned
    ledger            \* the ledger's side: calls received (open_by_key, col_values, append_row)
                      \* and how the last one ended

vars == <<env, selected_index, last_angle, spin_token, gs_status_msg, agg_gold,
          agg_jobs, tier_idx, opened, input_spin, input_save, payout_call,
          stats_call, ledger>>

---------------------------------------------------------------------------
(* Bounds of the model *)

MaxSessions == 2

MaxSaveClicks == 1

RollSlack == 3

\* rows of the ledger column, the header row included
MaxRows == 4

---------------------------------------------------------------------------
(* Game constants *)

\* WHEEL_MULTS, in hundredths
WHEEL_MULTS == <<80, 90, 100, 110, 115, 120, 125, 130, 135, 140, 145, 150>>

TIER_NAMES ==
    <<"Dusting Dabbler", "Curtain-Cord Wrangler", "Tapestry Tender", "Chandelier Charmer",
      "Parlour Perfectionist", "Gilded Guilder", "Salon Savant", "Waterdhavian Tastemaker",
      "Noble-House Laureate", "Master of Makeovers">>

BASE_CAP == 250

MIN_PAYOUT == 50

\* the value None of selected_index (an index is never negative: random.randrange(n))
None == -1

\* the slider ui.input_slider("roll", ..., 1, 30, 15)
ROLL_MIN == 1

ROLL_MAX == 30

\* denominators of the exact fractions
BaseDen == 29

RawDen == 290000

CellDen == 2

\* A real: n/d, with e the sign of the deviation of the double from n/d.
Real(n, d, e) == [n |-> n, d |-> d, e |-> e]

Whole(k) == Real(k, 1, 0)

\* a < b on reals (cross-multiplied; the deviation decides between equal fractions)
Less(a, b) ==
    \/ a.n * b.d < b.n * a.d
    \/ a.n * b.d = b.n * a.d /\ a.e < b.e

Min(a, b) == IF Less(b, a) THEN b ELSE a

Max(a, b) == IF Less(a, b) THEN b ELSE a

clamp(v, lo, hi) == Max(lo, Min(hi, v))

\* Python 3 round() of a non-negative double to an int: nearest, ties to even.
round(v) ==
    LET q == v.n \div v.d
        r == v.n % v.d
    IN  IF 2 * r < v.d \/ (2 * r = v.d /\ v.e < 0) THEN q
        ELSE IF 2 * r > v.d \/ (2 * r = v.d /\ v.e > 0) THEN q + 1
        ELSE IF q % 2 = 0 THEN q ELSE q + 1

\* roll_to_base_gold without its clamp of the roll
roll_to_base_gold_unclamped(roll) ==
    Real(50 * BaseDen + (roll - 1) * 100, BaseDen, 0)

roll_to_base_gold(roll) ==
    LET r == clamp(Whole(roll), Whole(1), Whole(30)).n
    IN  Real(50 * BaseDen + (r - 1) * 100, BaseDen, 0)


---------------------------------------------------------------------------
(* The payout pipeline *)

\* Inputs <<base.n, mult, flair>> at which the exact product base*mult*(1+flair)
\* is a half-integer and the double computed by `base * mult * (1.0 + flair)`
\* falls just below it (e.g. 50.0 * 1.0 * 1.15 = 57.49999999999999) ...
FloatBelow ==
    {<<1450, 100, 15>>, <<1450, 115, 0>>, <<1850, 145, 0>>, <<2250, 145, 0>>,
     <<2450, 145, 0>>, <<3950, 145, 0>>, <<4350, 140, 15>>}

\* ... and just above it (e.g. 50.0 * 1.1 * 1.1 = 60.50000000000001).
FloatAbove ==
    {<<1450, 90, 10>>, <<1450, 110, 10>>, <<2350, 145, 0>>, <<4350, 110, 10>>,
     <<4350, 130, 10>>, <<4350, 150, 10>>}

FloatDev(base, mult, flair) ==
    IF <<base.n, mult, flair>> \in FloatBelow THEN -1
    ELSE IF <<base.n, mult, flair>> \in FloatAbove THEN 1
    ELSE 0

\* raw = base * mult * (1.0 + flair)
raw_total(base, mult, flair) ==
    Real(base.n * mult * (100 + flair), RawDen, FloatDev(base, mult, flair))

\* the three checkboxes, all unchecked when a session starts
Flags == [flair_pass : BOOLEAN, flair_good : BOOLEAN, flair_ex : BOOLEAN]

SeqMax(s) == CHOOSE m \in {s[i] : i \in DOMAIN s} : \A i \in DOMAIN s : s[i] <= m

\* narrative_bonus_pct adding up the checked boxes
narrative_bonus_pct_additive(input) ==
    (IF input.flair_pass THEN 10 ELSE 0) + (IF input.flair_good THEN 15 ELSE 0)
    + (IF input.flair_ex THEN 25 ELSE 0)

\* in percent
narrative_bonus_pct(input) ==
    LET bonuses == (IF input.flair_pass THEN <<10>> ELSE <<>>)
                   \o (IF input.flair_good THEN <<15>> ELSE <<>>)
                   \o (IF input.flair_ex THEN <<25>> ELSE <<>>)
    IN  IF bonuses # <<>> THEN SeqMax(bonuses) ELSE 0

\* cap = int(round(BASE_CAP * (1.0 + 0.10 * tier)))
cap_of(tier) == round(Real(BASE_CAP * (10 + tier), 10, 0))

\* compute_payout with the floor left out of the clamp
compute_payout_no_floor(input) ==
    LET roll  == input.roll
        base  == roll_to_base_gold(roll)
        idx   == IF selected_index # None THEN selected_index ELSE 2
        mult  == WHEEL_MULTS[idx + 1]
        flair == narrative_bonus_pct(input)
        raw   == raw_total(base, mult, flair)
        cap   == cap_of(tier_idx)
        total == round(Min(Whole(cap), raw))
    IN  [roll |-> roll, base |-> base, mult |-> mult, flair |-> flair,
         raw |-> raw, total |-> total, cap |-> cap]

\* compute_payout with int() in the place of int(round())
compute_payout_truncating(input) ==
    LET roll  == input.roll
        base  == roll_to_base_gold(roll)
        idx   == IF selected_index # None THEN selected_index ELSE 2
        mult  == WHEEL_MULTS[idx + 1]
        flair == narrative_bonus_pct(input)
        raw   == raw_total(base, mult, flair)
        cap   == cap_of(tier_idx)
        c     == clamp(raw, Whole(MIN_PAYOUT), Whole(cap))
    IN  [roll |-> roll, base |-> base, mult |-> mult, flair |-> flair,
         raw |-> raw, total |-> c.n \div c.d, cap |-> cap]

\* The tuple compute_payout returns, from the session's inputs and the
\* process-wide selected_index and tier_idx.
compute_payout(input) ==
    LET roll  == input.roll
        base  == roll_to_base_gold(roll)
        idx   == IF selected_index # None THEN selected_index ELSE 2
        mult  == WHEEL_MULTS[idx + 1]
        flair == narrative_bonus_pct(input)
        raw   == raw_total(base, mult, flair)
        tier  == tier_idx
        cap   == cap_of(tier)
        total == round(clamp(raw, Whole(MIN_PAYOUT), Whole(cap)))
    IN  [roll |-> roll, base |-> base, mult |-> mult, flair |-> flair,
         raw |-> raw, total |-> total, cap |-> cap]

---------------------------------------------------------------------------
(* The ledger: Google Sheets behind gspread *)

\* A cell of column 8 as col_values returns it: a string that float() parses
\* (its value in half gp) or one it does not (a header, a blank, a remark).
Num(v2) == [num |-> TRUE, v2 |-> v2]

Text == [num |-> FALSE, v2 |-> 0]

\* Python's None and a message, for the err slot of the (value, err) pairs
NoErr == <<>>

Err(msg) == <<msg>>

\* `if err:` on None or a str
Truthy(err) == err # NoErr /\ err[1] # ""

ensure_gspread_client ==
    IF ~env.gspread THEN [gc |-> FALSE, err |-> Err("gspread not installed in this environment.")]
    ELSE IF env.creds = "valid" THEN [gc |-> TRUE, err |-> NoErr]
    ELSE IF env.creds = "none" THEN [gc |-> FALSE, err |-> Err("No Google credentials provided.")]
    ELSE [gc |-> FALSE, err |-> Err("Credential error: e")]

\* open_ok: whether gc.open_by_key (and worksheet / add_worksheet) came back
open_worksheet(gc, open_ok) ==
    IF ~env.sheet_id THEN [ws |-> FALSE, err |-> Err("GSHEETS_SPREADSHEET_ID/SHEET_ID is not set.")]
    ELSE IF open_ok THEN [ws |-> TRUE, err |-> NoErr]
    ELSE [ws |-> FALSE, err |-> Err("Open sheet error: e")]

RECURSIVE CellTotal(_)
\* the loop of fetch_stats, `total += float(v)`: in half gp, over the cells float() parses
CellTotal(col) ==
    IF col = <<>> THEN 0
    ELSE (IF Head(col).num THEN Head(col).v2 ELSE 0) + CellTotal(Tail(col))

RECURSIVE CellJobs(_)
\* the loop of fetch_stats, `jobs += 1`: the cells float() parses
CellJobs(col) ==
    IF col = <<>> THEN 0
    ELSE (IF Head(col).num THEN 1 ELSE 0) + CellJobs(Tail(col))

\* fetch_stats summing the column from its first row on
fetch_stats_with_header(read) ==
    IF read.ok
    THEN LET col == read.cells
         IN  [total |-> Real(CellTotal(col), CellDen, 0), jobs |-> CellJobs(col),
              err |-> NoErr]
    ELSE [total |-> Whole(0), jobs |-> 0, err |-> Err("e")]

\* read: what ws.col_values(8) did, [ok, cells] (cells returned, or it raised)
fetch_stats(read) ==
    IF read.ok
    THEN LET col == IF read.cells = <<>> THEN <<>> ELSE Tail(read.cells)
         IN  [total |-> Real(CellTotal(col), CellDen, 0), jobs |-> CellJobs(col),
              err |-> NoErr]
    ELSE [total |-> Whole(0), jobs |-> 0, err |-> Err("e")]


\* the tier without its ceiling
tier_for_unclamped(jobs) == jobs \div 5

\* tier = min(jobs // 5, 9)
tier_for(jobs) == Min(Whole(jobs \div 5), Whole(9)).n

\* gs_status_msg.set(f"<cross> {err}"): the message after the mark
Failed(err) == "Failed: " \o err[1]

\* refresh_stats storing what fetch_stats returned whether or not it failed
refresh_stats_zeroing(net) ==
    IF ~env.gspread
    THEN /\ gs_status_msg' = "gspread not installed"
         /\ UNCHANGED <<agg_gold, agg_jobs, tier_idx, ledger, stats_call>>
    ELSE LET c == ensure_gspread_client
             o == open_worksheet(c.gc, net.open_ok)
             f == fetch_stats(net.read)
         IN  IF Truthy(c.err)
             THEN /\ gs_status_msg' = Failed(c.err)
                  /\ UNCHANGED <<agg_gold, agg_jobs, tier_idx, ledger, stats_call>>
             ELSE IF Truthy(o.err)
             THEN /\ gs_status_msg' = Failed(o.err)
                  /\ ledger' = IF env.sheet_id
                               THEN [ledger EXCEPT !.open = @ + 1, !.last = "open failed"]
                               ELSE ledger
                  /\ UNCHANGED <<agg_gold, agg_jobs, tier_idx, stats_call>>
             ELSE IF Truthy(f.err)
             THEN /\ gs_status_msg' = "Failed: Fetch failed: " \o f.err[1]
                  /\ ledger' = [ledger EXCEPT !.open = @ + 1, !.read = @ + 1,
                                              !.last = "read failed"]
                  /\ stats_call' = <<[read |-> net.read, out |-> f]>>
                  /\ agg_gold' = round(f.total)
                  /\ agg_jobs' = f.jobs
                  /\ tier_idx' = tier_for(f.jobs)
             ELSE /\ gs_status_msg' = "Connected to Google Sheets"
                  /\ ledger' = [ledger EXCEPT !.open = @ + 1, !.read = @ + 1,
                                              !.last = "read ok"]
                  /\ stats_call' = <<[read |-> net.read, out |-> f]>>
                  /\ agg_gold' = round(f.total)
                  /\ agg_jobs' = f.jobs
                  /\ tier_idx' = tier_for(f.jobs)

\* refresh_stats announcing the connection before looking at the fetch
refresh_stats_always_connected(net) ==
    IF ~env.gspread
    THEN /\ gs_status_msg' = "gspread not installed"
         /\ UNCHANGED <<agg_gold, agg_jobs, tier_idx, ledger, stats_call>>
    ELSE LET c == ensure_gspread_client
             o == open_worksheet(c.gc, net.open_ok)
             f == fetch_stats(net.read)
         IN  IF Truthy(c.err)
             THEN /\ gs_status_msg' = Failed(c.err)
                  /\ UNCHANGED <<agg_gold, agg_jobs, tier_idx, ledger, stats_call>>
             ELSE IF Truthy(o.err)
             THEN /\ gs_status_msg' = Failed(o.err)
                  /\ ledger' = IF env.sheet_id
                               THEN [ledger EXCEPT !.open = @ + 1, !.last = "open failed"]
                               ELSE ledger
                  /\ UNCHANGED <<agg_gold, agg_jobs, tier_idx, stats_call>>
             ELSE IF Truthy(f.err)
             THEN /\ gs_status_msg' = "Connected to Google Sheets"
                  /\ ledger' = [ledger EXCEPT !.open = @ + 1, !.read = @ + 1,
                                              !.last = "read failed"]
                  /\ stats_call' = <<[read |-> net.read, out |-> f]>>
                  /\ UNCHANGED <<agg_gold, agg_jobs, tier_idx>>
             ELSE /\ gs_status_msg' = "Connected to Google Sheets"
                  /\ ledger' = [ledger EXCEPT !.open = @ + 1, !.read = @ + 1,
                                              !.last = "read ok"]
                  /\ stats_call' = <<[read |-> net.read, out |-> f]>>
                  /\ agg_gold' = round(f.total)
                  /\ agg_jobs' = f.jobs
                  /\ tier_idx' = tier_for(f.jobs)

\* One pass of refresh_stats.  net = [open_ok, read]: what the network did to
\* open_by_key and to col_values on this pass.
refresh_stats(net) ==
    IF ~env.gspread
    THEN /\ gs_status_msg' = "gspread not installed"
         /\ UNCHANGED <<agg_gold, agg_jobs, tier_idx, ledger, stats_call>>
    ELSE LET c == ensure_gspread_client
             o == open_worksheet(c.gc, net.open_ok)
             f == fetch_stats(net.read)
         IN  IF Truthy(c.err)
             THEN /\ gs_status_msg' = Failed(c.err)
                  /\ UNCHANGED <<agg_gold, agg_jobs, tier_idx, ledger, stats_call>>
             ELSE IF Truthy(o.err)
             THEN /\ gs_status_msg' = Failed(o.err)
                  /\ ledger' = IF env.sheet_id
                               THEN [ledger EXCEPT !.open = @ + 1, !.last = "open failed"]
                               ELSE ledger
                  /\ UNCHANGED <<agg_gold, agg_jobs, tier_idx, stats_call>>
             ELSE IF Truthy(f.err)
             THEN /\ gs_status_msg' = "Failed: Fetch failed: " \o f.err[1]
                  /\ ledger' = [ledger EXCEPT !.open = @ + 1, !.read = @ + 1,
                                              !.last = "read failed"]
                  /\ stats_call' = <<[read |-> net.read, out |-> f]>>
                  /\ UNCHANGED <<agg_gold, agg_jobs, tier_idx>>
             ELSE /\ gs_status_msg' = "Connected to Google Sheets"
                  /\ ledger' = [ledger EXCEPT !.open = @ + 1, !.read = @ + 1,
                                              !.last = "read ok"]
                  /\ stats_call' = <<[read |-> net.read, out |-> f]>>
                  /\ agg_gold' = round(f.total)
                  /\ agg_jobs' = f.jobs
                  /\ tier_idx' = tier_for(f.jobs)

---------------------------------------------------------------------------
(* The state machine *)

\* payout_block re-renders when a reactive value it read is set to another
\* value: until then the last call stays on display.
NoCall == <<>>

Shown(call, stale) == IF stale THEN NoCall ELSE call

Sessions == 1 .. MaxSessions

Envs == [gspread : BOOLEAN, creds : {"none", "invalid", "valid"}, sheet_id : BOOLEAN]

EnvOk == [gspread |-> TRUE, creds |-> "valid", sheet_id |-> TRUE]

\* the working configuration, and each way one setting of it can be missing
SampleEnvs ==
    {EnvOk, [EnvOk EXCEPT !.gspread = FALSE], [EnvOk EXCEPT !.creds = "none"],
     [EnvOk EXCEPT !.creds = "invalid"], [EnvOk EXCEPT !.sheet_id = FALSE]}

\* columns the sheet may hold when col_values(8) reads it
\* (a header, then n awards between 50 and 250 gp, the first of them with half a gp more)
Column(n) ==
    <<Text>> \o [i \in 1 .. n |->
                    Num(CellDen * (MIN_PAYOUT + 25 * (i % 9)) + (IF i = 1 THEN 1 ELSE 0))]

JobSamples == {5, 50}

SampleColumns ==
    {<<>>} \cup {Column(n) : n \in JobSamples}

Reads ==
    {[ok |-> FALSE, cells |-> <<>>]} \cup {[ok |-> TRUE, cells |-> c] : c \in SampleColumns}

Nets == [open_ok : BOOLEAN, read : Reads]

Inputs(rolls) ==
    [roll : rolls, flair_pass : BOOLEAN, flair_good : BOOLEAN, flair_ex : BOOLEAN]

\* the slider at its low end with no box checked, at its high end with all three
SampleInputs ==
    {[roll |-> ROLL_MIN, flair_pass |-> FALSE, flair_good |-> FALSE, flair_ex |-> FALSE],
     [roll |-> ROLL_MAX, flair_pass |-> TRUE, flair_good |-> TRUE, flair_ex |-> TRUE]}

Init ==
    /\ env \in SampleEnvs
    /\ selected_index = None
    /\ last_angle = 0
    /\ spin_token = FALSE
    /\ gs_status_msg = "Not connected"
    /\ agg_gold = 0
    /\ agg_jobs = 0
    /\ tier_idx = 0
    /\ opened = 0
    /\ input_spin = [s \in Sessions |-> FALSE]
    /\ input_save = 0
    /\ payout_call = NoCall
    /\ ledger = [open |-> 0, read |-> 0, append |-> 0, last |-> "none"]
    /\ stats_call = NoCall

\* A browser connects: server() runs, and with it one refresh_stats().
server(net) ==
    /\ opened < MaxSessions
    /\ opened' = opened + 1
    /\ refresh_stats(net)
    /\ payout_call' = Shown(payout_call, tier_idx' # tier_idx)
    /\ UNCHANGED <<env, selected_index, last_angle, spin_token, input_spin, input_save>>

\* The SPIN! button of session s; idx = random.randrange(n), turns = random.randint(4, 7)
_spin(s, idx, turns) ==
    /\ s \in 1 .. opened
    /\ LET n == Len(WHEEL_MULTS)
       IN  /\ idx \in 0 .. n - 1
           /\ selected_index' = idx
           /\ spin_token' = TRUE
           /\ last_angle' = turns * 360 + ((2 * idx + 1) * 360) \div (2 * n)
    /\ input_spin' = [input_spin EXCEPT ![s] = TRUE]
    /\ payout_call' = Shown(payout_call, selected_index' # selected_index)
    /\ UNCHANGED <<env, gs_status_msg, agg_gold, agg_jobs, tier_idx, opened, input_save,
                   ledger, stats_call>>

\* The "Save result to Google Sheets" button of session s: the click raises
\* input.save; server() registers no handler on it.
save(s) ==
    /\ s \in 1 .. opened
    /\ input_save < MaxSaveClicks
    /\ input_save' = input_save + 1
    /\ UNCHANGED <<env, selected_index, last_angle, spin_token, gs_status_msg, agg_gold,
                   agg_jobs, tier_idx, opened, input_spin, payout_call, ledger,
                   stats_call>>

\* payout_block writing the placeholder index back into selected_index
payout_block_selecting(s, input) ==
    /\ s \in 1 .. opened
    /\ payout_call' = <<[in |-> input, out |-> compute_payout(input)]>>
    /\ selected_index' = IF selected_index # None THEN selected_index ELSE 2
    /\ UNCHANGED <<env, last_angle, spin_token, gs_status_msg, agg_gold,
                   agg_jobs, tier_idx, opened, input_spin, input_save, ledger,
                   stats_call>>

\* Session s renders the payout card from its slider and checkboxes.
payout_block(s, input) ==
    /\ s \in 1 .. opened
    /\ payout_call' = <<[in |-> input, out |-> compute_payout(input)]>>
    /\ UNCHANGED <<env, selected_index, last_angle, spin_token, gs_status_msg, agg_gold,
                   agg_jobs, tier_idx, opened, input_spin, input_save, ledger,
                   stats_call>>

Next ==
    \/ \E net \in Nets : server(net)
    \/ \E s \in Sessions, idx \in 0 .. 11, turns \in 4 .. 7 : _spin(s, idx, turns)
    \/ \E s \in Sessions : save(s)
    \/ \E s \in Sessions, input \in SampleInputs : payout_block(s, input)

Spec == Init /\ [][Next]_vars


---------------------------------------------------------------------------
(* The payout pipeline on its own: one session, every wheel selection and  *)
(* every tier, the slider value taken from beyond both ends of the slider. *)

RollDomain == (ROLL_MIN - RollSlack) .. (ROLL_MAX + RollSlack)

MathInit ==
    /\ env = EnvOk
    /\ selected_index \in {None} \cup (0 .. Len(WHEEL_MULTS) - 1)
    /\ spin_token = (selected_index # None)
    /\ last_angle = IF selected_index = None THEN 0
                    ELSE 4 * 360 + ((2 * selected_index + 1) * 360) \div (2 * Len(WHEEL_MULTS))
    /\ gs_status_msg = "Connected to Google Sheets"
    /\ tier_idx \in 0 .. Len(TIER_NAMES) - 1
    /\ agg_jobs = 5 * tier_idx
    /\ agg_gold = 100 * agg_jobs
    /\ opened = 1
    /\ input_spin = [s \in Sessions |-> s = 1 /\ selected_index # None]
    /\ input_save = 0
    /\ payout_call = NoCall
    /\ ledger = [open |-> 1, read |-> 1, append |-> 0, last |-> "read ok"]
    /\ stats_call = LET read == [ok |-> TRUE,
                                cells |-> <<Text>> \o [i \in 1 .. agg_jobs |-> Num(100 * CellDen)]]
                    IN  <<[read |-> read, out |-> fetch_stats(read)]>>

\* the first rendering of the payout card
MathNext == payout_call = NoCall /\ \E input \in Inputs(RollDomain) : payout_block(1, input)

MathSpec == MathInit /\ [][MathNext]_vars


---------------------------------------------------------------------------
(* The ledger read on its own: the first session of a configured process,  *)
(* the sheet holding any column of up to MaxRows cells.                    *)

\* a remark, the lowest award, an award with half a gp, a correction below zero
CellSamples == {Text, Num(CellDen * MIN_PAYOUT), Num(CellDen * 75 + 1), Num(-20 * CellDen)}

Columns == UNION {[1 .. n -> CellSamples] : n \in 0 .. MaxRows}

AllReads == {[ok |-> FALSE, cells |-> <<>>]} \cup {[ok |-> TRUE, cells |-> c] : c \in Columns}

StatsInit == Init /\ env = EnvOk

StatsNext == opened = 0 /\ \E net \in [open_ok : BOOLEAN, read : AllReads] : server(net)

StatsSpec == StatsInit /\ [][StatsNext]_vars

---------------------------------------------------------------------------
(* Properties *)

Connected == "Connected to Google Sheets"

Called == payout_call # NoCall

Call == payout_call[1]

SliderRolls == ROLL_MIN .. ROLL_MAX

\* a step in which some session rendered the payout card
PayoutStep == payout_call' # NoCall /\ payout_call' # payout_call

\* a step in which a session started (and refresh_stats ran)
RefreshStep == opened' # opened

\* C1: whatever the wheel selection (none, or any of the twelve), the tier
\* (0..9), the roll and the boxes checked, the award compute_payout returns
\* lies between MIN_PAYOUT and the cap, and the cap is that of the current tier.
C1_AwardWithinCap ==
    Called => /\ MIN_PAYOUT <= Call.out.total
              /\ Call.out.total <= Call.out.cap
              /\ Call.out.cap = cap_of(tier_idx)
              /\ Call.out.cap = BASE_CAP + 25 * tier_idx

\* the ceiling at work: at tier 1 a raw total above the cap of 275 is shown as 275
C1_Witness ==
    /\ Called
    /\ tier_idx = 1
    /\ Less(Whole(Call.out.cap), Call.out.raw)
    /\ Call.out.total = 275

\* C2 (as the specification states it): a click on the save button without a
\* wheel selection appends nothing to the ledger; a click after a spin, here
\* with the ledger connected, appends one record and reads the aggregates back
\* exactly once.
C2_SaveGatedOnSelection ==
    [][input_save' # input_save =>
          IF selected_index = None
          THEN ledger'.append = ledger.append
          ELSE gs_status_msg = Connected =>
                  /\ ledger'.append = ledger.append + 1
                  /\ ledger'.read = ledger.read + 1]_vars

C4_TierFromJobs ==
    /\ [](/\ tier_idx \in 0 .. 9
          /\ tier_idx + 1 \in DOMAIN TIER_NAMES
          /\ tier_idx = IF agg_jobs \div 5 < 9 THEN agg_jobs \div 5 ELSE 9)
    /\ [][agg_jobs' >= agg_jobs => tier_idx' >= tier_idx]_vars

\* the ceiling at work: fifty jobs read from the sheet, tier 9
C4_Witness ==
    /\ agg_jobs = 50
    /\ tier_idx = 9
    /\ gs_status_msg = Connected

\* C5 (as the specification states it): a session that has not spun sees no
\* wheel selection, and its payout uses the placeholder multiplier 1.0.
C5_NoSelectionBeforeFirstSpin ==
    \A s \in 1 .. opened :
        ~input_spin[s] =>
            /\ selected_index = None
            /\ \A input \in SampleInputs : compute_payout(input).mult = WHEEL_MULTS[2 + 1]

\* C6: a rendering of the payout card changes none of selected_index,
\* last_angle, agg_gold, agg_jobs, tier_idx; the selection changes only in a
\* spin, to an index of the wheel; and a rendering that reads the inputs of the
\* call on display returns the tuple on display.
C6_PayoutHasNoSideEffects ==
    [][/\ PayoutStep =>
            UNCHANGED <<selected_index, last_angle, spin_token, agg_gold, agg_jobs, tier_idx>>
       /\ selected_index' # selected_index =>
            /\ selected_index' \in 0 .. Len(WHEEL_MULTS) - 1
            /\ spin_token'
            /\ \E turns \in 4 .. 7 : last_angle' = turns * 360 + 30 * selected_index' + 15
            /\ \E s \in 1 .. opened : input_spin'[s]
       /\ (Called /\ PayoutStep /\ payout_call'[1].in = Call.in) =>
            payout_call'[1].out = Call.out]_vars

\* the card rendered after a spin: the selection is still there and is the one used
C6_Witness ==
    /\ Called
    /\ selected_index \in 0 .. Len(WHEEL_MULTS) - 1
    /\ selected_index # 2
    /\ Call.out.mult = WHEEL_MULTS[selected_index + 1]

\* the reference award of the specification, rounding first and clamping afterwards:
\* clamp(round(base * multiplier * (1 + bonus)), MIN_PAYOUT, cap), with
\* base = 50 + (roll - 1) * 100 / 29 and cap = round(250 * (1 + 0.10 * tier))
FinalAward(roll, mult, bonus, tier) ==
    LET base == Real(50 * 29 + (roll - 1) * 100, 29, 0)
        cap  == round(Real(250 * (10 + tier), 10, 0))
        rnd  == round(raw_total(base, mult, bonus))
    IN  IF rnd < 50 THEN 50 ELSE IF rnd > cap THEN cap ELSE rnd

\* C7: for every slider roll, wheel multiplier, bonus rate and tier the award
\* of compute_payout (clamp, then round) is the reference award (round, then
\* clamp); roll 15 at x1.0 without bonus at tier 0 gives 98, roll 1 at x0.8
\* without bonus gives 50, roll 30 at x1.5 with 25% at tier 0 gives 250, and
\* the caps of tiers 0, 1, 9 are 250, 275, 475.
C7_AwardIsReference ==
    (Called /\ Call.in.roll \in SliderRolls) =>
        LET o == Call.out
        IN  /\ o.total = FinalAward(Call.in.roll, o.mult, o.flair, tier_idx)
            /\ o.mult \in {WHEEL_MULTS[i] : i \in DOMAIN WHEEL_MULTS}
            /\ o.flair \in {0, 10, 15, 25}
            /\ (o.roll = 15 /\ o.mult = 100 /\ o.flair = 0 /\ tier_idx = 0) => o.total = 98
            /\ (o.roll = 1 /\ o.mult = 80 /\ o.flair = 0) => o.total = 50
            /\ (o.roll = 30 /\ o.mult = 150 /\ o.flair = 25 /\ tier_idx = 0) => o.total = 250
            /\ tier_idx = 0 => o.cap = 250
            /\ tier_idx = 1 => o.cap = 275
            /\ tier_idx = 9 => o.cap = 475

\* a raw total strictly between two integers and inside the clamp, rounded up:
\* roll 16 at x1.5 with 25% at tier 9 is 190.73..., awarded as 191
C7_Witness ==
    /\ Called
    /\ Call.in.roll = 16
    /\ Call.out.mult = 150
    /\ Call.out.flair = 25
    /\ tier_idx = 9
    /\ Call.out.total = 191

\* C8: roll_to_base_gold lies in [50, 150] for every integer roll, does not
\* decrease as the roll grows, is 50 + (roll - 1) * 100 / 29 on the slider, and
\* off the slider is what it is at the nearer end of the slider.
C8_BaseGold ==
    Called =>
        LET roll == Call.in.roll
            base == Call.out.base
        IN  /\ base.d = BaseDen
            /\ 50 * BaseDen <= base.n
            /\ base.n <= 150 * BaseDen
            /\ \A r \in RollDomain :
                  r >= roll => ~Less(roll_to_base_gold(r), base)
            /\ roll \in SliderRolls => base.n = 50 * BaseDen + (roll - 1) * 100
            /\ roll <= 0 => base = roll_to_base_gold(1)
            /\ roll >= 31 => base = roll_to_base_gold(30)
            /\ roll <= 1 => base.n = 50 * BaseDen
            /\ roll >= 30 => base.n = 150 * BaseDen

\* a roll below the slider, treated as roll 1
C8_Witness ==
    /\ Called
    /\ Call.in.roll < ROLL_MIN
    /\ Call.out.base = Real(50 * BaseDen, BaseDen, 0)

\* the rate of each box
BoxRates(input) ==
    (IF input.flair_pass THEN {10} ELSE {}) \cup (IF input.flair_good THEN {15} ELSE {})
    \cup (IF input.flair_ex THEN {25} ELSE {})

\* the rates of the checked boxes added up
RateSum(input) ==
    (IF input.flair_pass THEN 10 ELSE 0) + (IF input.flair_good THEN 15 ELSE 0)
    + (IF input.flair_ex THEN 25 ELSE 0)

\* C10: the bonus rate is the largest rate among the checked boxes, 0 with no
\* box checked, one of 0, 10, 15, 25 percent, and with two or more boxes
\* checked it is less than the sum of their rates.
C10_BonusIsMaximum ==
    Called =>
        LET rates == BoxRates(Call.in)
            flair == Call.out.flair
        IN  /\ flair \in {0, 10, 15, 25}
            /\ rates = {} => flair = 0
            /\ rates # {} => flair \in rates /\ \A r \in rates : r <= flair
            /\ Cardinality(rates) >= 2 => flair < RateSum(Call.in)

\* passable and excellent checked together: 25 percent, not 35
C10_Witness ==
    /\ Called
    /\ Call.in.flair_pass
    /\ ~Call.in.flair_good
    /\ Call.in.flair_ex
    /\ Call.out.flair = 25

\* the inputs of a session nobody has touched: the slider at 15, no box checked
SessionStartInput ==
    [roll |-> 15, flair_pass |-> FALSE, flair_good |-> FALSE, flair_ex |-> FALSE]

\* the messages refresh_stats leaves when a pass fails
FailureMsgs ==
    {"gspread not installed",
     "Failed: No Google credentials provided.",
     "Failed: Credential error: e",
     "Failed: GSHEETS_SPREADSHEET_ID/SHEET_ID is not set.",
     "Failed: Open sheet error: e",
     "Failed: Fetch failed: e"}

StatsCalled == stats_call # NoCall

StatsCall == stats_call[1]

\* the rows after the first whose cell float() parses
Parsed(cells) == {i \in 2 .. Len(cells) : cells[i].num}

RECURSIVE SumOf(_, _)
\* the cells of the rows in rows added up, in half gp
SumOf(cells, rows) ==
    IF rows = {} THEN 0
    ELSE LET i == CHOOSE i \in rows : TRUE
         IN  cells[i].v2 + SumOf(cells, rows \ {i})

\* C11: for every column col_values returns, fetch_stats leaves the first row
\* out, returns as total the sum of the other cells that parse as numbers and
\* as count how many they are, with no error whatever the cells that do not
\* parse; it returns an error, with total 0 and count 0, exactly when the read
\* of the column itself failed.
C11_FetchStatsSumsParsedCells ==
    StatsCalled =>
        LET cells == StatsCall.read.cells
            out == StatsCall.out
        IN  IF StatsCall.read.ok
            THEN /\ out.err = NoErr
                 /\ out.jobs = Cardinality(Parsed(cells))
                 /\ out.total = Real(SumOf(cells, Parsed(cells)), CellDen, 0)
            ELSE /\ out.err # NoErr
                 /\ out.total = Whole(0)
                 /\ out.jobs = 0

\* a column whose first row is a number, with a remark between two awards:
\* the first row and the remark are left out, the two awards are summed
C11_Witness ==
    /\ StatsCalled
    /\ StatsCall.read.ok
    /\ Len(StatsCall.read.cells) >= 4
    /\ StatsCall.read.cells[1].num
    /\ StatsCall.read.cells[2].num
    /\ ~StatsCall.read.cells[3].num
    /\ StatsCall.read.cells[4].num
    /\ StatsCall.out.jobs = 2
    /\ StatsCall.out.err = NoErr
    /\ StatsCall.out.total.n = StatsCall.read.cells[2].v2 + StatsCall.read.cells[4].v2

====
